---------------------------- MODULE Spec2Model ----------------------------
(***************************************************************************)
(* A model of the launcher backend (src/app.go) and of the part of its UI  *)
(* that drives it (src/unnamed/part_000).                                  *)
(*                                                                         *)
(* The program is modelled as eight state machines over one set of         *)
(* variables, each with its own specification:                             *)
(*   SpecPlan      App.filesToUpdate and its per-entry diff goroutines     *)
(*   SpecUnzip     unzipToFolder, entry by entry, on a file system         *)
(*   SpecManifest  App.refreshManifests (downloadFile + readJSON)          *)
(*   Spec          overlapping Update / DownloadMaps calls on the shared   *)
(*                 progress counters, statement by statement               *)
(*   SpecSync      Update and NeedsUpdate, one call after the other, on    *)
(*                 the file system and the version token                   *)
(*   SpecPercent   App.DownloadPercent on counters of any value            *)
(*   SpecPlay      App.Play and App.PlayDirect on the file system          *)
(*   SpecPoll      the frontend's update() and its poll over the Update    *)
(*                 call (SpecPollFair: the same with fair scheduling)      *)
(* A specification leaves the variables of the other machines untouched.   *)
(***************************************************************************)
EXTENDS Integers, Sequences, FiniteSets, Bags, TLC

VARIABLES
  \* ---- filesToUpdate (src/app.go:361-399)
  assetsFiles,    \* a.assetsInfo.Files
  clientFiles,    \* a.clientInfo.Files
  localState,     \* the install root: local path -> what is there
  filesTocheck,   \* append(a.assetsInfo.Files, a.clientInfo.Files...)
  files,          \* the plan under construction
  planMutex,      \* the local sync.Mutex: 0 when free, else the holder
  wg,             \* the sync.WaitGroup counter
  wpc,            \* goroutine i's position
  planPc,         \* filesToUpdate's own position
  planErr,        \* the error filesToUpdate returns
  \* ---- unzipToFolder (src/app.go:513-584)
  zipFile,        \* r.File: the archive's entry names, in archive order
  fs,             \* the file system: path -> [kind, content]
  fs0,            \* the file system when unzipToFolder was called
  rootFolder,     \* the local rootFolder
  unzipPc,        \* unzipToFolder's position
  unzipIdx,       \* the index of the entry the running loop is at
  unzipErr,       \* the error unzipToFolder returns
  targets,        \* per entry: the targetPath it was extracted to, if any
  \* ---- refreshManifests (src/app.go:110-138)
  clientInfo,     \* a.clientInfo
  assetsInfo,     \* a.assetsInfo
  remoteDoc,      \* what the server answers for each manifest
  localDoc,       \* client.json and assets.json in the install root
  refreshPc,      \* refreshManifests' position
  refreshes,      \* how many times refreshManifests has been called
  prevInfo,       \* the in-memory manifests when the running call began
  refreshFailed,  \* per manifest: whether its download or its read failed in
                  \* the running call
  \* ---- the progress counters of App (src/app.go:57-60)
  totalBytes,
  totalFiles,
  downloadedBytes,
  downloadedFiles,
  \* ---- Update, DownloadMaps and downloadZip, called from the frontend
  calls,          \* per binding call: its kind, position and locals
  activeDownloads,\* a.activeDownloads
  \* ---- Update and NeedsUpdate, one call after the other, on the file system
  server,         \* what the server holds: the archive and the version token
  tempZip,        \* the temp file nordemon_download.zip
  syncPc,         \* the running call's position
  syncCalls,      \* how many binding calls were made
  publications,   \* how many times the server published a new release
  lastCheck,      \* the last NeedsUpdate call: what it met and what it returned
  cacheFresh,     \* the last Update ran to its end and saved the token, and
                  \* the server's token is still that one
  goodRuns,       \* how many Updates in a row ran to their end against an
                  \* unchanged server
  lastGoodFs,     \* the file system after the last of them
  prevGoodFs,     \* the file system after the one before it
  \* ---- DownloadPercent (src/app.go:150-157), called on its own
  percentPc,      \* whether the call has returned
  percentResult,  \* what it returned
  \* ---- Play and PlayDirect (src/app.go:649-718)
  playKind,       \* the binding that runs: Play(false), Play(true), PlayDirect
  playPc,         \* its position
  executable,     \* the local executable: the resolved path
  plays,          \* how many launch calls were made
  startAttempts,  \* how many times the running call called cmd.Start
  processes,      \* how many child processes were started
  reported,       \* what the running call reported
  \* ---- the frontend's update() and its poll (src/unnamed/part_000:84-106)
  updating,       \* the frontend's updating
  needsUpdate,    \* the frontend's needsUpdate
  ui,             \* the frontend's totalFiles, totalBytes, downloadedBytes,
                  \* downloadedFiles, activeDownload and progress
  pollPc,         \* the running poll callback's position
  intervalSet,    \* whether the interval is set
  updates         \* how many times update() ran; its Update call is
                  \* calls[updates]

planVars == <<assetsFiles, clientFiles, localState, filesTocheck, files,
              planMutex, wg, wpc, planPc, planErr>>

unzipVars == <<zipFile, fs, fs0, rootFolder, unzipPc, unzipIdx, unzipErr, targets>>

manifestVars == <<clientInfo, assetsInfo, remoteDoc, localDoc, refreshPc, refreshes,
                  prevInfo, refreshFailed>>

progressVars == <<totalBytes, totalFiles, downloadedBytes, downloadedFiles>>

callVars == <<calls, activeDownloads>>

syncVars == <<server, tempZip, syncPc, syncCalls, publications, lastCheck, cacheFresh,
              goodRuns, lastGoodFs, prevGoodFs>>

percentVars == <<percentPc, percentResult>>

playVars == <<playKind, playPc, executable, plays, startAttempts, processes, reported>>

uiVars == <<updating, needsUpdate, ui, pollPc, intervalSet, updates>>

laterVars == <<percentVars, playVars, uiVars>>

vars == <<planVars, unzipVars, manifestVars, progressVars, callVars, syncVars, laterVars>>

\* What each machine leaves alone.
planOthers == <<unzipVars, manifestVars, progressVars, callVars, syncVars, laterVars>>
unzipOthers == <<planVars, manifestVars, progressVars, callVars, syncVars, laterVars>>
manifestOthers == <<planVars, unzipVars, totalBytes, totalFiles, downloadedBytes, callVars,
                    syncVars, laterVars>>
callOthers == <<planVars, unzipVars, manifestVars, syncVars, laterVars>>
syncOthers == <<planVars, manifestVars, callVars, zipFile, fs0, rootFolder, unzipPc, unzipIdx,
                unzipErr, targets, laterVars>>
percentOthers == <<planVars, unzipVars, manifestVars, callVars, syncVars, playVars, uiVars,
                   totalBytes, totalFiles, downloadedBytes, downloadedFiles>>
playOthers == <<planVars, manifestVars, progressVars, callVars, syncVars, percentVars, uiVars,
                zipFile, fs, fs0, rootFolder, unzipPc, unzipIdx, unzipErr, targets>>
pollOthers == <<planVars, unzipVars, manifestVars, syncVars, percentVars, playVars>>

-----------------------------------------------------------------------------
(* Generic helpers *)

Range(s) == {s[i] : i \in 1..Len(s)}

SeqsUpTo(S, n) == UNION {[1..k -> S] : k \in 0..n}

RECURSIVE SeqToBag(_)
SeqToBag(s) ==
  IF s = <<>> THEN EmptyBag ELSE SeqToBag(Tail(s)) (+) SetToBag({Head(s)})

-----------------------------------------------------------------------------
(* The state of a machine that a specification does not run. *)

PlanIdle ==
  /\ assetsFiles = <<>>
  /\ clientFiles = <<>>
  /\ localState = <<>>
  /\ filesTocheck = <<>>
  /\ files = <<>>
  /\ planMutex = 0
  /\ wg = 0
  /\ wpc = <<>>
  /\ planPc = "idle"
  /\ planErr = "unset"

UnzipIdle ==
  /\ zipFile = <<>>
  /\ fs = <<>>
  /\ fs0 = <<>>
  /\ rootFolder = <<>>
  /\ unzipPc = "idle"
  /\ unzipIdx = 0
  /\ unzipErr = "unset"
  /\ targets = <<>>

ManifestIdle ==
  /\ clientInfo = <<>>
  /\ assetsInfo = <<>>
  /\ remoteDoc = <<>>
  /\ localDoc = <<>>
  /\ refreshPc = "idle"
  /\ refreshes = 0
  /\ prevInfo = <<>>
  /\ refreshFailed = <<>>

\* NewApp (src/app.go:71-81) leaves the counters at zero.
ProgressIdle ==
  /\ totalBytes = 0
  /\ totalFiles = 0
  /\ downloadedBytes = 0
  /\ downloadedFiles = 0

\* NewApp: no call is running, activeDownloads is an empty map.
CallsIdle ==
  /\ calls = <<>>
  /\ activeDownloads = {}

SyncIdle ==
  /\ server = <<>>
  /\ tempZip = <<>>
  /\ syncPc = "idle"
  /\ syncCalls = 0
  /\ publications = 0
  /\ lastCheck = <<>>
  /\ cacheFresh = FALSE
  /\ goodRuns = 0
  /\ lastGoodFs = <<>>
  /\ prevGoodFs = <<>>

PercentIdle ==
  /\ percentPc = "idle"
  /\ percentResult = <<>>

PlayIdle ==
  /\ playKind = "none"
  /\ playPc = "idle"
  /\ executable = <<>>
  /\ plays = 0
  /\ startAttempts = 0
  /\ processes = 0
  /\ reported = "nothing"

UiIdle ==
  /\ updating = FALSE
  /\ needsUpdate = FALSE
  /\ ui = <<>>
  /\ pollPc = "idle"
  /\ intervalSet = FALSE
  /\ updates = 0

LaterIdle == PercentIdle /\ PlayIdle /\ UiIdle

-----------------------------------------------------------------------------
(* filesToUpdate *)

\* Bound: the number of manifest entries (assets and client together).
MaxFiles == 2

LocalPaths == {"data/things.dat", "init.lua"}
Hashes == {"h1", "h2"}

\* type File (the two fields filesToUpdate reads)
File == [LocalFile : LocalPaths, UnpackedHash : Hashes]

\* What the install root holds at a local path:
\*   "absent"      nothing there, every directory above it exists (ENOENT)
\*   "notdir"      nothing there, and a component above it is a regular file
\*                 (the path cannot exist; os.Stat and os.Open fail, ENOTDIR)
\*   "unreadable"  a file that os.Stat sees and os.Open cannot open (EACCES)
\*   a hash        a readable file with that SHA-256 digest
LocalStates == {"absent", "notdir", "unreadable"} \cup Hashes

\* Whether a local file is there at all.
LocalFilePresent(st) == st \in {"unreadable"} \cup Hashes

\* os.Stat on a local path: nil, or the error it returns
osStat(st) ==
  CASE st = "absent" -> "ErrNotExist"
    [] st = "notdir" -> "ENOTDIR"
    [] OTHER -> "nil"

\* fileExists, given what os.Stat returned: false only when the error is a
\* not-exist error
fileExists(statErr) == ~(statErr = "ErrNotExist")

\* sha256Sum: <<digest, err>>
sha256Sum(st) ==
  IF st \in Hashes THEN <<st, "nil">> ELSE <<"", "open error">>

\* A goroutine that treats a hash error as a changed file.
DiffDecisionErrorAppends(file, st) ==
  IF ~fileExists(osStat(st)) THEN "append"
  ELSE LET r == sha256Sum(st) IN
       IF r[2] # "nil" THEN "append"
       ELSE IF r[1] # file.UnpackedHash THEN "append" ELSE "skip"

\* The branch the goroutine for `file` takes: "append" or "skip" (with or
\* without a logged error).
DiffDecision(file, st) ==
  IF ~fileExists(osStat(st)) THEN "append"
  ELSE LET r == sha256Sum(st) IN
       IF r[2] # "nil" THEN "error"
       ELSE IF r[1] # file.UnpackedHash THEN "append" ELSE "skip"

PlanInit ==
  /\ \E n \in 0..MaxFiles, k \in 0..MaxFiles :
       /\ k <= n
       /\ assetsFiles \in [1..k -> File]
       /\ clientFiles \in [1..(n - k) -> File]
  /\ localState \in [LocalPaths -> LocalStates]
  /\ filesTocheck = <<>>
  /\ files = <<>>
  /\ planMutex = 0
  /\ wg = 0
  /\ wpc = <<>>
  /\ planPc = "entry"
  /\ planErr = "unset"
  /\ UnzipIdle
  /\ ManifestIdle
  /\ ProgressIdle
  /\ CallsIdle
  /\ SyncIdle
  /\ LaterIdle

\* lines 362-367: build filesTocheck, wg.Add(len(filesTocheck))
PlanStart ==
  /\ planPc = "entry"
  /\ filesTocheck' = assetsFiles \o clientFiles
  /\ wg' = Len(assetsFiles) + Len(clientFiles)
  /\ wpc' = [i \in 1..(Len(assetsFiles) + Len(clientFiles)) |-> "unspawned"]
  /\ planPc' = "spawn"
  /\ UNCHANGED <<assetsFiles, clientFiles, localState, files, planMutex, planErr>>

\* lines 369-394: the loop starts one goroutine per entry, in order
PlanSpawn ==
  /\ planPc = "spawn"
  /\ IF \E i \in DOMAIN wpc : wpc[i] = "unspawned"
     THEN LET i == CHOOSE j \in DOMAIN wpc :
                     wpc[j] = "unspawned" /\ \A m \in 1..(j - 1) : wpc[m] # "unspawned"
          IN wpc' = [wpc EXCEPT ![i] = "check"] /\ planPc' = planPc
     ELSE wpc' = wpc /\ planPc' = "wait"
  /\ UNCHANGED <<assetsFiles, clientFiles, localState, filesTocheck, files,
                 planMutex, wg, planErr>>

\* The deferred wg.Done() of a goroutine that returns at once.
WorkerReturns(i) ==
  /\ wg' = wg - 1
  /\ wpc' = [wpc EXCEPT ![i] = "done"]

\* lines 373-392: the goroutine's local decision (fileExists, sha256Sum)
WorkerCheck(i) ==
  /\ wpc[i] = "check"
  /\ LET d == DiffDecision(filesTocheck[i], localState[filesTocheck[i].LocalFile]) IN
       IF d = "append"
       THEN wpc' = [wpc EXCEPT ![i] = "lock"] /\ wg' = wg
       ELSE WorkerReturns(i)
  /\ UNCHANGED <<assetsFiles, clientFiles, localState, filesTocheck, files,
                 planMutex, planPc, planErr>>

\* lines 376, 388: mutex.Lock()
WorkerLock(i) ==
  /\ wpc[i] = "lock"
  /\ planMutex = 0
  /\ planMutex' = i
  /\ wpc' = [wpc EXCEPT ![i] = "append"]
  /\ UNCHANGED <<assetsFiles, clientFiles, localState, filesTocheck, files,
                 wg, planPc, planErr>>

\* lines 377, 389: files = append(files, file)
WorkerAppend(i) ==
  /\ wpc[i] = "append"
  /\ files' = Append(files, filesTocheck[i])
  /\ wpc' = [wpc EXCEPT ![i] = "unlock"]
  /\ UNCHANGED <<assetsFiles, clientFiles, localState, filesTocheck,
                 planMutex, wg, planPc, planErr>>

\* lines 378, 390 and the deferred wg.Done() of line 371
WorkerUnlock(i) ==
  /\ wpc[i] = "unlock"
  /\ planMutex' = 0
  /\ WorkerReturns(i)
  /\ UNCHANGED <<assetsFiles, clientFiles, localState, filesTocheck, files,
                 planPc, planErr>>

\* lines 396-398: wg.Wait(); return files, nil
PlanWait ==
  /\ planPc = "wait"
  /\ wg = 0
  /\ planPc' = "done"
  /\ planErr' = "nil"
  /\ UNCHANGED <<assetsFiles, clientFiles, localState, filesTocheck, files,
                 planMutex, wg, wpc>>

PlanStep ==
  \/ PlanStart
  \/ PlanSpawn
  \/ \E i \in DOMAIN wpc : WorkerCheck(i)
  \/ \E i \in DOMAIN wpc : WorkerLock(i)
  \/ \E i \in DOMAIN wpc : WorkerAppend(i)
  \/ \E i \in DOMAIN wpc : WorkerUnlock(i)
  \/ PlanWait

PlanNext ==
  \/ PlanStart /\ UNCHANGED planOthers
  \/ PlanSpawn /\ UNCHANGED planOthers
  \/ \E i \in DOMAIN wpc : WorkerCheck(i) /\ UNCHANGED planOthers
  \/ \E i \in DOMAIN wpc : WorkerLock(i) /\ UNCHANGED planOthers
  \/ \E i \in DOMAIN wpc : WorkerAppend(i) /\ UNCHANGED planOthers
  \/ \E i \in DOMAIN wpc : WorkerUnlock(i) /\ UNCHANGED planOthers
  \/ PlanWait /\ UNCHANGED planOthers

SpecPlan == PlanInit /\ [][PlanNext]_vars

-----------------------------------------------------------------------------
(* Claims about filesToUpdate *)

\* How many entries of filesTocheck are the File f.
Multiplicity(f) == Cardinality({i \in DOMAIN filesTocheck : filesTocheck[i] = f})

\* How many times the returned plan holds the File f.
PlanCopies(f) == Cardinality({i \in DOMAIN files : files[i] = f})

\* An entry whose local file is absent, or whose local digest differs.
NeedsFetch(f) ==
  LET st == localState[f.LocalFile] IN
    \/ ~LocalFilePresent(st)
    \/ (st \in Hashes /\ st # f.UnpackedHash)

\* C1: filesToUpdate returns exactly the entries whose local file is absent or
\* whose local digest differs from unpackedHash, each as often as the
\* manifests list it and no other entry, under every interleaving of the
\* diff goroutines.
C1_PlanIsExactlyTheStaleEntries ==
  planPc = "done" =>
    \A f \in File : PlanCopies(f) = IF NeedsFetch(f) THEN Multiplicity(f) ELSE 0

\* C9: a read or hash error on an existing local file drops only that entry:
\* filesToUpdate never blocks before it returns, returns after every goroutine
\* has finished, returns a nil error, leaves the unreadable entry out, and
\* includes every entry whose file is absent or readable exactly as that
\* entry's own file decides.
C9_HashErrorSkipsOnlyThatEntry ==
  /\ (planPc = "done" \/ ENABLED PlanStep)
  /\ planPc = "done" =>
       /\ planErr = "nil"
       /\ wg = 0
       /\ \A i \in DOMAIN wpc : wpc[i] = "done"
       /\ \A f \in File :
            LET st == localState[f.LocalFile] IN
              /\ st = "unreadable" => PlanCopies(f) = 0
              /\ st = "absent" => PlanCopies(f) = Multiplicity(f)
              /\ st \in Hashes =>
                   PlanCopies(f) = IF st # f.UnpackedHash THEN Multiplicity(f) ELSE 0

\* C9's case: the plan is returned, one entry's file could not be read, and
\* another entry made it into the plan.
C9_Witness ==
  /\ planPc = "done"
  /\ \E i, j \in DOMAIN filesTocheck :
       /\ localState[filesTocheck[i].LocalFile] = "unreadable"
       /\ localState[filesTocheck[j].LocalFile] \in {"absent"} \cup Hashes
       /\ PlanCopies(filesTocheck[j]) = 1
       /\ PlanCopies(filesTocheck[i]) = 0

-----------------------------------------------------------------------------
(* Strings and paths.  A string is a sequence of one-character strings; a   *)
(* cleaned absolute path is the sequence of its segments, <<>> being "/".  *)

\* strings.HasPrefix
HasPrefix(str, prefix) ==
  /\ Len(prefix) <= Len(str)
  /\ SubSeq(str, 1, Len(prefix)) = prefix

\* strings.TrimPrefix
TrimPrefix(str, prefix) ==
  IF HasPrefix(str, prefix) THEN SubSeq(str, Len(prefix) + 1, Len(str)) ELSE str

\* strings.Split(str, "/"): never empty; an empty string gives one empty part
RECURSIVE Split(_)
Split(str) ==
  IF \A i \in DOMAIN str : str[i] # "/" THEN <<str>>
  ELSE LET k == CHOOSE i \in DOMAIN str :
                  str[i] = "/" /\ \A j \in 1..(i - 1) : str[j] # "/"
       IN <<SubSeq(str, 1, k - 1)>> \o Split(SubSeq(str, k + 1, Len(str)))

\* filepath.Clean of a rooted path, one segment at a time: empty and "."
\* segments are dropped, ".." drops the segment before it and is itself
\* dropped at the root.
RECURSIVE CleanFrom(_, _)
CleanFrom(path, parts) ==
  IF parts = <<>> THEN path
  ELSE LET seg == Head(parts) IN
       CASE seg = <<>> \/ seg = <<".">> -> CleanFrom(path, Tail(parts))
         [] seg = <<".", ".">> ->
              CleanFrom(IF path = <<>> THEN path ELSE SubSeq(path, 1, Len(path) - 1),
                        Tail(parts))
         [] OTHER -> CleanFrom(Append(path, seg), Tail(parts))

\* filepath.Join(dir, name) for a cleaned absolute dir
Join(dir, name) == CleanFrom(dir, Split(name))

\* filepath.Dir of a cleaned absolute path
Dir(path) == IF path = <<>> THEN path ELSE SubSeq(path, 1, Len(path) - 1)

\* Whether path is dir or lies below it.
IsUnder(path, dir) == HasPrefix(path, dir)

-----------------------------------------------------------------------------
(* The file system *)

\* What a path holds: nothing, a directory, or a file with its content.
Nothing == [kind |-> "none", content |-> <<>>]
Directory == [kind |-> "dir", content |-> <<>>]
RegularFile(content) == [kind |-> "file", content |-> content]

At(f, path) == IF path \in DOMAIN f THEN f[path] ELSE Nothing

IsFile(v) == v.kind = "file"

Prefixes(path) == {SubSeq(path, 1, k) : k \in 0..Len(path)}

\* os.MkdirAll: fails when a file is in the way, else makes every missing
\* directory down to path
MkdirAll(f, path) ==
  IF \E q \in Prefixes(path) : IsFile(At(f, q))
  THEN [err |-> "ENOTDIR", fs |-> f]
  ELSE [err |-> "nil",
        fs |-> [q \in DOMAIN f \cup Prefixes(path) |->
                  IF q \in Prefixes(path) THEN Directory ELSE f[q]]]

\* os.Create followed by io.Copy of the content: fails on a directory, and
\* when the parent is not a directory; truncates and rewrites a file
CreateAndCopy(f, path, content) ==
  IF At(f, path) = Directory THEN [err |-> "EISDIR", fs |-> f]
  ELSE IF path = <<>> \/ At(f, Dir(path)) # Directory THEN [err |-> "ENOENT", fs |-> f]
  ELSE [err |-> "nil",
        fs |-> [q \in DOMAIN f \cup {path} |->
                  IF q = path THEN RegularFile(content) ELSE f[q]]]

\* os.RemoveAll
RemoveAll(f, path) == [q \in {r \in DOMAIN f : ~IsUnder(r, path)} |-> f[q]]

-----------------------------------------------------------------------------
(* unzipToFolder *)

\* Bound: the number of entries of an archive.
MaxEntries == 3

\* The entry names archives are built from.
EntryNames ==
  { <<"r", "/">>,                                  \* r/          the wrapper directory
    <<"r", "/", "a">>,                             \* r/a
    <<"r", "/", "b", "/">>,                        \* r/b/        a directory below it
    <<"r">>,                                       \* r           a file named like it
    <<"s", "/", "a">>,                             \* s/a         a second top-level name
    <<"a">>,                                       \* a           a top-level file
    <<"/", "a">>,                                  \* /a          an empty first segment
    <<".", ".", "/", "e">>,                        \* ../e
    <<".", ".", "/", ".", ".", "/", "e">>,         \* ../../e
    <<"r", "/", ".", ".", "/", ".", ".", "/", "e">> }  \* r/../../e

\* appDirectory() and the client folder below it
AppDir == << <<"app">> >>
ClientDir == Append(AppDir, <<"client">>)

\* The bytes of the archive's entry number idx (each entry has its own).
EntryContent(idx) == <<"entry", ToString(idx)>>

\* The bytes of a file of an earlier installation.
OldContent == <<"old">>

\* The install root with an empty client folder, and one that holds files of
\* an earlier installation.
FreshFS ==
  [q \in Prefixes(ClientDir) |-> Directory]
UsedFS ==
  [q \in Prefixes(ClientDir) \cup {Append(ClientDir, <<"a">>), Append(AppDir, <<"e">>)} |->
     IF q \in Prefixes(ClientDir) THEN Directory ELSE RegularFile(OldContent)]

\* f.FileInfo().IsDir(): a name that ends in a slash
IsDir(name) == name # <<>> /\ name[Len(name)] = "/"

\* lines 523-532: one iteration of the loop that looks for a single root
\* folder.  <<rootFolder, whether the loop breaks>>
ScanEntry(root, name) ==
  LET parts == Split(name) IN
    IF Len(parts) > 0
    THEN IF root = <<>> THEN <<parts[1], FALSE>>
         ELSE IF root # parts[1] THEN << <<>>, TRUE >>
         ELSE <<root, FALSE>>
    ELSE <<root, FALSE>>

\* lines 538-549: the entry's targetPath, or skip (the `continue`) for the
\* root folder itself
TargetPath(root, dst, name) ==
  IF root # <<>>
  THEN LET relPath == TrimPrefix(name, Append(root, "/")) IN
         IF relPath = <<>> THEN [skip |-> TRUE, path |-> <<>>]
         ELSE [skip |-> FALSE, path |-> Join(dst, relPath)]
  ELSE [skip |-> FALSE, path |-> Join(dst, name)]

\* lines 536-581: one iteration of the extraction loop on entry number idx.
\* [err, fs, target]
ExtractEntry(f, root, dst, name, idx) ==
  LET t == TargetPath(root, dst, name)
      targetPath == t.path
  IN
    IF t.skip THEN [err |-> "nil", fs |-> f, target |-> t]
    ELSE IF IsDir(name)
    THEN LET m == MkdirAll(f, targetPath) IN
           [err |-> m.err, fs |-> m.fs, target |-> t]
    ELSE LET m == MkdirAll(f, Dir(targetPath)) IN
           IF m.err # "nil" THEN [err |-> m.err, fs |-> m.fs, target |-> t]
           ELSE LET c == CreateAndCopy(m.fs, targetPath, EntryContent(idx)) IN
                  [err |-> c.err, fs |-> c.fs, target |-> t]

UnzipInit ==
  /\ zipFile \in SeqsUpTo(EntryNames, MaxEntries)
  /\ fs0 \in {FreshFS, UsedFS}
  /\ fs = fs0
  /\ rootFolder = <<>>
  /\ unzipPc = "scan"
  /\ unzipIdx = 1
  /\ unzipErr = "unset"
  /\ targets = <<>>
  /\ PlanIdle
  /\ ManifestIdle
  /\ ProgressIdle
  /\ CallsIdle
  /\ SyncIdle
  /\ LaterIdle

\* lines 522-533
UnzipScan ==
  /\ unzipPc = "scan"
  /\ IF unzipIdx > Len(zipFile)
     THEN /\ unzipPc' = "extract"
          /\ unzipIdx' = 1
          /\ rootFolder' = rootFolder
     ELSE LET r == ScanEntry(rootFolder, zipFile[unzipIdx]) IN
            /\ rootFolder' = r[1]
            /\ unzipPc' = IF r[2] THEN "extract" ELSE "scan"
            /\ unzipIdx' = IF r[2] THEN 1 ELSE unzipIdx + 1
  /\ UNCHANGED <<zipFile, fs, fs0, unzipErr, targets>>

\* lines 536-583
UnzipExtract ==
  /\ unzipPc = "extract"
  /\ IF unzipIdx > Len(zipFile)
     THEN /\ unzipPc' = "done"
          /\ unzipErr' = "nil"
          /\ UNCHANGED <<fs, unzipIdx, targets>>
     ELSE LET x == ExtractEntry(fs, rootFolder, ClientDir, zipFile[unzipIdx], unzipIdx) IN
            /\ fs' = x.fs
            /\ targets' = Append(targets, x.target)
            /\ IF x.err # "nil"
               THEN unzipPc' = "done" /\ unzipErr' = x.err /\ unzipIdx' = unzipIdx
               ELSE unzipPc' = "extract" /\ unzipErr' = unzipErr /\ unzipIdx' = unzipIdx + 1
  /\ UNCHANGED <<zipFile, fs0, rootFolder>>

UnzipNext ==
  \/ UnzipScan /\ UNCHANGED unzipOthers
  \/ UnzipExtract /\ UNCHANGED unzipOthers

SpecUnzip == UnzipInit /\ [][UnzipNext]_vars

-----------------------------------------------------------------------------
(* Claims about unzipToFolder *)

\* The paths whose content differs from what it was before the call.
ChangedPaths == {q \in DOMAIN fs \cup DOMAIN fs0 : At(fs, q) # At(fs0, q)}

\* C2: extraction never creates or writes a file or directory outside the
\* destination directory.
C2_ExtractionStaysInsideDestination ==
  \A q \in ChangedPaths : IsUnder(q, ClientDir)

\* The first path segment of an entry name.
FirstSegment(name) == Split(name)[1]

\* Every entry of the archive has the same first path segment.
SharedFirstSegment ==
  \A i, j \in DOMAIN zipFile : FirstSegment(zipFile[i]) = FirstSegment(zipFile[j])

\* The entry name without its first segment and the slash after it.
StripFirstSegment(name) == SubSeq(name, Len(FirstSegment(name)) + 2, Len(name))

\* C3: the first path segment is stripped from the extracted paths if and only
\* if every entry shares one first segment; with two or more distinct first
\* segments every entry is extracted under its full name, whatever the order
\* of the entries.  (An entry that is nothing but the first segment has no
\* path left to strip: the statement leaves where it goes open.)
C3_FlattenIffOneSharedFirstSegment ==
  \A i \in DOMAIN targets :
    IF SharedFirstSegment
    THEN Len(Split(zipFile[i])) > 1 /\ ~targets[i].skip =>
           targets[i].path = Join(ClientDir, StripFirstSegment(zipFile[i]))
    ELSE ~targets[i].skip /\ targets[i].path = Join(ClientDir, zipFile[i])

-----------------------------------------------------------------------------
(* refreshManifests *)

\* Bound: the number of calls of refreshManifests (Version and Revision each
\* make one).
MaxRefreshes == 2

Manifests == {"client", "assets"}

\* The two fields of a manifest the model follows (for the client manifest
\* ClientInfo.Version and ClientInfo.Revision, for the assets manifest
\* AssetsInfo.Version and AssetsInfo.Files).
Fields == {"Version", "Body"}

\* The value of a field in memory: Go's zero value, or one of two values.
FieldValues == {"zero", "v1", "v2"}

\* What a JSON document says about a field: nothing, a value of the field's
\* type, or a value of another type (a string where a number is declared).
DocValues == {"absent", "badtype", "v1", "v2"}

\* A file's content: a JSON document (syntactically valid or not); a path
\* may also hold no file.
Documents ==
  [exists : {TRUE}, valid : {TRUE}, fields : [Fields -> DocValues]]
    \cup {[exists |-> TRUE, valid |-> FALSE, fields |-> [f \in Fields |-> "absent"]]}
NoFile == [exists |-> FALSE, valid |-> FALSE, fields |-> [f \in Fields |-> "absent"]]
\* What os.Create leaves before anything is copied: a file of length 0, which
\* is not a JSON document.
EmptyFile == [exists |-> TRUE, valid |-> FALSE, fields |-> [f \in Fields |-> "absent"]]

\* The documents the server starts with (another value comes with a later
\* publication).
FirstDocuments == {d \in Documents : \A f \in Fields : d.fields[f] # "v2"}

ZeroInfo == [f \in Fields |-> "zero"]

\* How a downloadFile call can end (src/app.go:586-631).
DownloadOutcomes == {"mkdir error", "create error", "get error", "status", "copy error", "ok"}

\* downloadFile's effect on the destination file: os.Create truncates it
\* before the request is made, io.Copy fills it.
DownloadedFile(old, remote, outcome) ==
  CASE outcome \in {"mkdir error", "create error"} -> old
    [] outcome \in {"get error", "status", "copy error"} -> EmptyFile
    [] OTHER -> remote

\* json.Unmarshal into a struct that already holds values: a document that is
\* not valid JSON is refused before anything is stored; otherwise every field
\* of the document with a value of the right type is stored, a field the
\* document lacks keeps its value, and a field with a value of the wrong type
\* is skipped and makes Unmarshal return an UnmarshalTypeError after the
\* other fields were stored.
Unmarshal(doc, info) ==
  IF ~doc.valid THEN [err |-> "SyntaxError", info |-> info]
  ELSE [err |-> IF \E f \in Fields : doc.fields[f] = "badtype"
                THEN "UnmarshalTypeError" ELSE "nil",
        info |-> [f \in Fields |->
                    IF doc.fields[f] \in {"absent", "badtype"} THEN info[f]
                    ELSE doc.fields[f]]]

\* readJSON (src/app.go:408-418)
readJSON(file, info) ==
  IF ~file.exists THEN [err |-> "ReadFile error", info |-> info]
  ELSE Unmarshal(file, info)

InfoOf(m) == IF m = "client" THEN clientInfo ELSE assetsInfo

ManifestInit ==
  /\ clientInfo = ZeroInfo
  /\ assetsInfo = ZeroInfo
  /\ remoteDoc \in [Manifests -> FirstDocuments]
  /\ localDoc \in [Manifests -> {NoFile, [exists |-> TRUE, valid |-> TRUE,
                                          fields |-> [f \in Fields |-> "v1"]]}]
  /\ refreshPc = "idle"
  /\ refreshes = 0
  /\ prevInfo = [m \in Manifests |-> ZeroInfo]
  /\ refreshFailed = [m \in Manifests |-> FALSE]
  /\ PlanIdle
  /\ UnzipIdle
  /\ ProgressIdle
  /\ CallsIdle
  /\ SyncIdle
  /\ LaterIdle

\* Version() or Revision() calls refreshManifests.
RefreshCall ==
  /\ refreshPc \in {"idle", "done"}
  /\ refreshes < MaxRefreshes
  /\ refreshes' = refreshes + 1
  /\ refreshPc' = "download client"
  /\ prevInfo' = [m \in Manifests |-> InfoOf(m)]
  /\ refreshFailed' = [m \in Manifests |-> FALSE]
  /\ UNCHANGED <<clientInfo, assetsInfo, remoteDoc, localDoc, downloadedFiles>>

\* Between two calls the server may publish another document.
RemotePublishes ==
  /\ refreshPc = "done"
  /\ refreshes < MaxRefreshes
  /\ \E m \in Manifests, d \in Documents :
       /\ d # remoteDoc[m]
       /\ remoteDoc' = [remoteDoc EXCEPT ![m] = d]
  /\ UNCHANGED <<clientInfo, assetsInfo, localDoc, refreshPc, refreshes, prevInfo,
                 refreshFailed, downloadedFiles>>

\* lines 111-114 and 125-128: downloadFile(url, name, false); an error is
\* logged.  A completed download counts one file (line 628).
RefreshDownload(m) ==
  /\ refreshPc = "download " \o m
  /\ \E outcome \in DownloadOutcomes :
       /\ localDoc' = [localDoc EXCEPT ![m] = DownloadedFile(localDoc[m], remoteDoc[m], outcome)]
       /\ refreshFailed' = [refreshFailed EXCEPT ![m] = (outcome # "ok")]
       /\ downloadedFiles' = IF outcome = "ok" THEN downloadedFiles + 1 ELSE downloadedFiles
  /\ refreshPc' = "read " \o m
  /\ UNCHANGED <<clientInfo, assetsInfo, remoteDoc, refreshes, prevInfo>>

\* lines 116-123 and 130-137: readJSON(path, &info); an error is logged
RefreshRead(m) ==
  /\ refreshPc = "read " \o m
  /\ LET r == readJSON(localDoc[m], InfoOf(m)) IN
       /\ IF m = "client"
          THEN clientInfo' = r.info /\ assetsInfo' = assetsInfo
          ELSE assetsInfo' = r.info /\ clientInfo' = clientInfo
       /\ refreshFailed' = [refreshFailed EXCEPT ![m] = @ \/ r.err # "nil"]
  /\ refreshPc' = IF m = "client" THEN "download assets" ELSE "done"
  /\ UNCHANGED <<remoteDoc, localDoc, refreshes, prevInfo, downloadedFiles>>

ManifestNext ==
  \/ RefreshCall /\ UNCHANGED manifestOthers
  \/ RemotePublishes /\ UNCHANGED manifestOthers
  \/ \E m \in Manifests : RefreshDownload(m) /\ UNCHANGED manifestOthers
  \/ \E m \in Manifests : RefreshRead(m) /\ UNCHANGED manifestOthers

SpecManifest == ManifestInit /\ [][ManifestNext]_vars

-----------------------------------------------------------------------------
(* Claims about refreshManifests *)

\* C10: when one manifest fails to download or to parse, the in-memory
\* manifest keeps exactly the value it had before the call, and the other
\* manifest is still downloaded, read and loaded.
C10_FailedManifestKeepsPreviousValue ==
  refreshPc = "done" =>
    \A m \in Manifests :
      IF refreshFailed[m]
      THEN InfoOf(m) = prevInfo[m]
      ELSE InfoOf(m) = Unmarshal(remoteDoc[m], prevInfo[m]).info

-----------------------------------------------------------------------------
(* Update, DownloadMaps and downloadZip.  The frontend may call a binding   *)
(* while another call is still running (each call runs in a goroutine of   *)
(* its own), so calls overlap.  What the network and the disk answer is    *)
(* chosen freely here; every return of the code is followed.               *)

\* Bounds: the number of binding calls, and the bytes of a response body.
MaxCalls == 2
MaxBytes == 2

Calls == 1..MaxCalls

\* A call's locals are kept while the code still reads them.
IdleCall == [kind |-> "none", pc |-> "idle", tmp |-> 0, contentLength |-> 0,
             body |-> 0, entries |-> 0, err |-> "unset"]

\* The plain assignments at the top of Update (lines 225-228) and of
\* DownloadMaps (lines 296-299): position -> the field, the value stored and
\* the position after it.
ResetSteps ==
  [ u225 |-> [field |-> "totalFiles", value |-> 1, next |-> "u226"],
    u226 |-> [field |-> "totalBytes", value |-> 0, next |-> "u227"],
    u227 |-> [field |-> "downloadedFiles", value |-> 0, next |-> "u228"],
    u228 |-> [field |-> "downloadedBytes", value |-> 0, next |-> "url"],
    m296 |-> [field |-> "totalBytes", value |-> 0, next |-> "m297"],
    m297 |-> [field |-> "downloadedBytes", value |-> 0, next |-> "m298"],
    m298 |-> [field |-> "totalFiles", value |-> 1, next |-> "m299"],
    m299 |-> [field |-> "downloadedFiles", value |-> 0, next |-> "dz_request"] ]

\* A store to one of the four counters.
StoreCounter(field, value) ==
  /\ totalFiles' = IF field = "totalFiles" THEN value ELSE totalFiles
  /\ totalBytes' = IF field = "totalBytes" THEN value ELSE totalBytes
  /\ downloadedFiles' = IF field = "downloadedFiles" THEN value ELSE downloadedFiles
  /\ downloadedBytes' = IF field = "downloadedBytes" THEN value ELSE downloadedBytes

\* ActiveDownload (lines 213-220): some key of the map, or "" for an empty
\* map.  No line of the program adds a key to activeDownloads.
ActiveDownload ==
  IF activeDownloads = {} THEN {""} ELSE activeDownloads

CallsInit ==
  /\ calls = [c \in Calls |-> IdleCall]
  /\ activeDownloads = {}
  /\ ProgressIdle
  /\ PlanIdle
  /\ UnzipIdle
  /\ ManifestIdle
  /\ SyncIdle
  /\ LaterIdle

\* The frontend calls Update or DownloadMaps.
CallBegins(c) ==
  /\ calls[c].pc = "idle"
  /\ \E kind \in {"Update", "DownloadMaps"} :
       calls' = [calls EXCEPT ![c].kind = kind,
                              ![c].pc = IF kind = "Update" THEN "u225" ELSE "m296"]
  /\ UNCHANGED <<progressVars, activeDownloads>>

\* lines 225-228, 296-299
CallResets(c) ==
  /\ calls[c].pc \in DOMAIN ResetSteps
  /\ LET st == ResetSteps[calls[c].pc] IN
       /\ StoreCounter(st.field, st.value)
       /\ calls' = [calls EXCEPT ![c].pc = st.next]
  /\ UNCHANGED activeDownloads

\* lines 230-257: the old folders are removed and client_download_url.txt is
\* fetched; Update returns when the request or the read of its body fails
UpdateFetchesURL(c) ==
  /\ calls[c].pc = "url"
  /\ \E outcome \in {"get error", "read error", "ok"} :
       calls' = [calls EXCEPT ![c].pc = IF outcome = "ok" THEN "dz_request" ELSE "returned",
                              ![c].err = IF outcome = "ok" THEN @ ELSE outcome]
  /\ UNCHANGED <<progressVars, activeDownloads>>

\* Where a call goes when downloadZip returns err (lines 260-263, 302-305).
DownloadZipFails(c, err) ==
  calls' = [calls EXCEPT ![c].pc = "returned", ![c].err = err, ![c].body = 0,
                         ![c].entries = 0]

\* lines 422-444: the target folder and the temp file are made and the
\* archive is requested; the response declares a content length (-1 when the
\* server declares none) and carries an archive of some number of entries
DzRequests(c) ==
  /\ calls[c].pc = "dz_request"
  /\ \/ \E err \in {"mkdir error", "create error", "get error", "status"} :
          DownloadZipFails(c, err)
     \/ \E len \in -1..MaxBytes, body \in 0..MaxBytes, n \in 0..MaxEntries :
          /\ len >= 0 => body = len
          /\ calls' = [calls EXCEPT ![c].pc = "dz_total", ![c].contentLength = len,
                                    ![c].body = body, ![c].entries = n]
  /\ UNCHANGED <<progressVars, activeDownloads>>

\* line 446: a.totalBytes = resp.ContentLength
DzSetsTotalBytes(c) ==
  /\ calls[c].pc = "dz_total"
  /\ StoreCounter("totalBytes", calls[c].contentLength)
  /\ calls' = [calls EXCEPT ![c].pc = "dz_copy", ![c].contentLength = 0]
  /\ UNCHANGED activeDownloads

\* lines 448-452 and 720-724: io.Copy reads a chunk through the TeeReader,
\* which hands it to App.Write: atomic.AddInt64(&a.downloadedBytes, n)
DzWrites(c) ==
  /\ calls[c].pc = "dz_copy"
  /\ \E n \in 1..calls[c].body :
       /\ downloadedBytes' = downloadedBytes + n
       /\ calls' = [calls EXCEPT ![c].body = @ - n]
  /\ UNCHANGED <<totalBytes, totalFiles, downloadedFiles, activeDownloads>>

\* lines 452-456: io.Copy ends, with an error (the connection breaks, the
\* disk is full) or at the end of the body
DzCopyEnds(c) ==
  /\ calls[c].pc = "dz_copy"
  /\ \/ DownloadZipFails(c, "copy error")
     \/ /\ calls[c].body = 0
        /\ calls' = [calls EXCEPT ![c].pc = "dz_unzip"]
  /\ UNCHANGED <<progressVars, activeDownloads>>

\* lines 459-462: unzipToFolder(tempFile, targetPath)
DzUnzips(c) ==
  /\ calls[c].pc = "dz_unzip"
  /\ \/ DownloadZipFails(c, "unzip error")
     \/ calls' = [calls EXCEPT ![c].pc = "dz_load", ![c].entries = 0]
  /\ UNCHANGED <<progressVars, activeDownloads>>

\* line 464, a.downloadedFiles++, is a plain read ...
DzLoadsDownloadedFiles(c) ==
  /\ calls[c].pc = "dz_load"
  /\ calls' = [calls EXCEPT ![c].pc = "dz_store", ![c].tmp = downloadedFiles]
  /\ UNCHANGED <<progressVars, activeDownloads>>

\* ... and a plain write of the value read plus one; downloadZip returns nil.
\* DownloadMaps returns; Update goes on to save the version.
DzStoresDownloadedFiles(c) ==
  /\ calls[c].pc = "dz_store"
  /\ StoreCounter("downloadedFiles", calls[c].tmp + 1)
  /\ calls' = [calls EXCEPT ![c].pc = IF calls[c].kind = "Update" THEN "version" ELSE "returned",
                            ![c].err = IF calls[c].kind = "Update" THEN @ ELSE "nil"]
  /\ UNCHANGED activeDownloads

\* lines 265-279: the version is fetched and saved; a failure is ignored
UpdateSavesVersion(c) ==
  /\ calls[c].pc = "version"
  /\ calls' = [calls EXCEPT ![c].pc = "returned", ![c].err = "nil"]
  /\ UNCHANGED <<progressVars, activeDownloads>>

Next ==
  \/ \E c \in Calls : CallBegins(c) /\ UNCHANGED callOthers
  \/ \E c \in Calls : CallResets(c) /\ UNCHANGED callOthers
  \/ \E c \in Calls : UpdateFetchesURL(c) /\ UNCHANGED callOthers
  \/ \E c \in Calls : DzRequests(c) /\ UNCHANGED callOthers
  \/ \E c \in Calls : DzSetsTotalBytes(c) /\ UNCHANGED callOthers
  \/ \E c \in Calls : DzWrites(c) /\ UNCHANGED callOthers
  \/ \E c \in Calls : DzCopyEnds(c) /\ UNCHANGED callOthers
  \/ \E c \in Calls : DzUnzips(c) /\ UNCHANGED callOthers
  \/ \E c \in Calls : DzLoadsDownloadedFiles(c) /\ UNCHANGED callOthers
  \/ \E c \in Calls : DzStoresDownloadedFiles(c) /\ UNCHANGED callOthers
  \/ \E c \in Calls : UpdateSavesVersion(c) /\ UNCHANGED callOthers

Spec == CallsInit /\ [][Next]_vars

-----------------------------------------------------------------------------
(* Claims about the progress state *)

\* The counter a call is about to write, and whether the write is an atomic
\* operation or a plain store.
NextWrite(c) ==
  LET pc == calls[c].pc IN
    CASE pc \in DOMAIN ResetSteps -> [field |-> ResetSteps[pc].field, kind |-> "plain"]
      [] pc = "dz_total" -> [field |-> "totalBytes", kind |-> "plain"]
      [] pc = "dz_copy" /\ calls[c].body > 0 -> [field |-> "downloadedBytes", kind |-> "atomic"]
      [] pc = "dz_store" -> [field |-> "downloadedFiles", kind |-> "plain"]
      [] OTHER -> [field |-> "none", kind |-> "none"]

\* Two calls are about to write the same counter and one of the writes is a
\* plain store that nothing orders with the other.
UnsynchronizedWrite ==
  \E c1, c2 \in Calls :
    /\ c1 # c2
    /\ NextWrite(c1).kind = "plain"
    /\ NextWrite(c2).kind # "none"
    /\ NextWrite(c1).field = NextWrite(c2).field

\* C5: every mutation of the progress state is an atomic or mutex-guarded
\* step: no unsynchronized write is reachable under any interleaving of
\* transfers and resets.
C5_NoUnsynchronizedWrite == ~UnsynchronizedWrite

\* A transfer is in flight: some call is inside downloadZip.
InFlight(c) ==
  calls[c].pc \in {"dz_request", "dz_total", "dz_copy", "dz_unzip", "dz_load", "dz_store"}

\* C6: while a transfer is in flight ActiveDownload reports it: it returns
\* the empty string only when no transfer is in flight.
C6_ActiveDownloadNamesTheTransfer ==
  (\E c \in Calls : InFlight(c)) => "" \notin ActiveDownload

\* C7: a downloadZip that succeeds raises downloadedFiles by exactly one,
\* whatever the number of entries of the archive, and one that fails leaves it
\* as it is.
C7_ArchiveCountsOnce ==
  [][\A c \in Calls :
       /\ (calls[c].pc = "dz_store" /\ calls'[c].pc # "dz_store") =>
            downloadedFiles' = downloadedFiles + 1
       /\ (InFlight(c) /\ calls'[c].pc = "returned" /\ calls'[c].err # "nil") =>
            downloadedFiles' = downloadedFiles]_vars

-----------------------------------------------------------------------------
(* Update and NeedsUpdate on the file system, one binding call after the    *)
(* other: the archive is extracted by unzipToFolder as modelled above, the *)
(* version token is fetched, saved and compared.                           *)

\* Bounds: the binding calls made, the entries of the server's archive, and
\* the releases the server publishes after the first.
MaxSyncCalls == 2
MaxSyncEntries == 2
MaxPublications == 1

\* unicode.IsSpace, as far as the tokens of the model go
Whitespace == {" ", "\n", "\t", "\r"}

\* strings.TrimSpace
RECURSIVE TrimSpace(_)
TrimSpace(str) ==
  IF str = <<>> THEN str
  ELSE IF Head(str) \in Whitespace THEN TrimSpace(Tail(str))
  ELSE IF str[Len(str)] \in Whitespace THEN TrimSpace(SubSeq(str, 1, Len(str) - 1))
  ELSE str

\* The bodies client_version.txt is served with.
VersionTokens == { <<"1">>, <<"1", "\n">>, <<"2">> }

\* The entry names the server's archives are built from.
SyncNames ==
  { <<"r", "/", "init.lua">>,
    <<"init.lua">>,
    <<".", ".", "/", "client_version.txt">>,
    <<".", ".", "/", "OTCLIENT", "/", "x">> }

\* A ZIP file: one zip.OpenReader accepts, with its entry names, or one it
\* refuses.
BrokenZip == [valid |-> FALSE, names |-> <<>>]
SyncArchives ==
  {[valid |-> TRUE, names |-> n] : n \in SeqsUpTo(SyncNames, MaxSyncEntries)} \cup {BrokenZip}

\* The archives of a later release.
LaterArchives == {[valid |-> TRUE, names |-> << <<"r", "/", "init.lua">> >>]}

\* lines 232, 274, 315, 329
OldClientFolders ==
  { <<"OTCLIENT">>, <<"OTCLIENT NORDEMON">>, <<"OTCLIENTE NORDEMON CRIPT">>, <<"client">> }
VersionPath == Append(AppDir, <<"client_version.txt">>)
InitLuaPath == Append(ClientDir, <<"init.lua">>)

\* An install root that was never used, and one with an earlier client, its
\* cached version token and a folder of an old client.
NewInstall == [q \in Prefixes(AppDir) |-> Directory]
OldInstall ==
  [q \in Prefixes(ClientDir)
         \cup {Append(ClientDir, <<"a">>), VersionPath, Append(AppDir, <<"OTCLIENT">>),
               AppDir \o << <<"OTCLIENT">>, <<"x">> >>} |->
     IF q \in Prefixes(ClientDir) \cup {Append(AppDir, <<"OTCLIENT">>)} THEN Directory
     ELSE IF q = VersionPath THEN RegularFile(<<"1">>)
     ELSE RegularFile(OldContent)]

\* os.Stat on the file system: nil, or the error it returns
StatAt(f, path) ==
  IF At(f, path) # Nothing THEN "nil"
  ELSE IF \E q \in Prefixes(path) : IsFile(At(f, q)) THEN "ENOTDIR"
  ELSE "ErrNotExist"

\* os.ReadFile
ReadFile(f, path) ==
  IF IsFile(At(f, path)) THEN [err |-> "nil", content |-> At(f, path).content]
  ELSE [err |-> "read error", content |-> <<>>]

\* A WriteFile that opens the file for appending.
WriteFileAppends(f, path, content) ==
  IF IsFile(At(f, path))
  THEN CreateAndCopy(f, path, At(f, path).content \o content)
  ELSE CreateAndCopy(f, path, content)

\* os.WriteFile: creates or truncates the file and writes the content
WriteFile(f, path, content) == CreateAndCopy(f, path, content)

\* lines 521-533: the whole scan for a single root folder
RECURSIVE ScanFrom(_, _, _)
ScanFrom(root, names, i) ==
  IF i > Len(names) THEN root
  ELSE LET r == ScanEntry(root, names[i]) IN
         IF r[2] THEN r[1] ELSE ScanFrom(r[1], names, i + 1)

\* lines 535-583: the whole extraction loop; it returns at the first error
RECURSIVE ExtractFrom(_, _, _, _, _)
ExtractFrom(f, root, dst, names, i) ==
  IF i > Len(names) THEN [err |-> "nil", fs |-> f]
  ELSE LET x == ExtractEntry(f, root, dst, names[i], i) IN
         IF x.err # "nil" THEN [err |-> x.err, fs |-> x.fs]
         ELSE ExtractFrom(x.fs, root, dst, names, i + 1)

\* unzipToFolder (lines 513-584)
unzipToFolder(f, zip, dst) ==
  IF ~zip.valid THEN [err |-> "zip error", fs |-> f]
  ELSE ExtractFrom(f, ScanFrom(<<>>, zip.names, 1), dst, zip.names, 1)

\* unzipToFolder when the disk refuses the k-th entry (OpenFile or io.Copy
\* fails, lines 569-580): the entries before it are extracted, unless one of
\* them fails first
unzipStopsAt(f, zip, dst, k) ==
  LET x == ExtractFrom(f, ScanFrom(<<>>, zip.names, 1), dst, SubSeq(zip.names, 1, k - 1), 1)
  IN [err |-> IF x.err # "nil" THEN x.err ELSE "io error", fs |-> x.fs]

\* lines 232-239: every old client folder that fileExists reports is removed
RECURSIVE CleanOldFolders(_, _)
CleanOldFolders(f, folders) ==
  IF folders = {} THEN f
  ELSE LET d == CHOOSE x \in folders : TRUE
           oldPath == Append(AppDir, d)
       IN CleanOldFolders(IF fileExists(StatAt(f, oldPath)) THEN RemoveAll(f, oldPath) ELSE f,
                          folders \ {d})

\* A NeedsUpdate that trims the local token only.
NeedsUpdateRemoteUntrimmed(f, token, outcome) ==
  CASE outcome = "get error" -> ~fileExists(StatAt(f, InitLuaPath))
    [] outcome = "read error" -> FALSE
    [] OTHER ->
         IF ~fileExists(StatAt(f, VersionPath)) THEN TRUE
         ELSE LET r == ReadFile(f, VersionPath) IN
                IF r.err # "nil" THEN TRUE
                ELSE TrimSpace(r.content) # token

\* NeedsUpdate (lines 308-346), given how the request for client_version.txt
\* ends and the body it is served with
NeedsUpdate(f, token, outcome) ==
  CASE outcome = "get error" -> ~fileExists(StatAt(f, InitLuaPath))
    [] outcome = "read error" -> FALSE
    [] OTHER ->
         LET remoteVersion == TrimSpace(token) IN
           IF ~fileExists(StatAt(f, VersionPath)) THEN TRUE
           ELSE LET r == ReadFile(f, VersionPath) IN
                  IF r.err # "nil" THEN TRUE
                  ELSE TrimSpace(r.content) # remoteVersion

NoCheck == [outcome |-> "none", remoteToken |-> <<>>, cached |-> FALSE,
            cacheToken |-> <<>>, fresh |-> FALSE, result |-> FALSE]

\* The declared content length of an archive.
ContentLength(zip) == Len(zip.names) + 1

SyncInit ==
  /\ server \in [archive : SyncArchives, token : VersionTokens]
  /\ fs \in {NewInstall, OldInstall}
  /\ tempZip = BrokenZip
  /\ syncPc = "idle"
  /\ syncCalls = 0
  /\ publications = 0
  /\ lastCheck = NoCheck
  /\ cacheFresh = FALSE
  /\ goodRuns = 0
  /\ lastGoodFs = <<>>
  /\ prevGoodFs = <<>>
  /\ zipFile = <<>> /\ fs0 = <<>> /\ rootFolder = <<>> /\ unzipPc = "idle"
  /\ unzipIdx = 0 /\ unzipErr = "unset" /\ targets = <<>>
  /\ ProgressIdle
  /\ PlanIdle
  /\ ManifestIdle
  /\ CallsIdle
  /\ LaterIdle

\* Between two calls the server publishes a release: another token, with
\* the same archive or with another.
ServerPublishes ==
  /\ syncPc = "idle"
  /\ publications < MaxPublications
  /\ publications' = publications + 1
  /\ \E t \in VersionTokens \ {server.token}, a \in {server.archive} \cup LaterArchives :
       server' = [archive |-> a, token |-> t]
  /\ cacheFresh' = FALSE
  /\ goodRuns' = 0
  /\ UNCHANGED <<fs, tempZip, syncPc, syncCalls, lastCheck, lastGoodFs, prevGoodFs,
                 progressVars>>

\* The call returns without having run to its end (lines 247, 254, 262).
SyncUpdateFails ==
  /\ syncPc' = "idle"
  /\ goodRuns' = 0
  /\ UNCHANGED <<server, syncCalls, publications, lastCheck, cacheFresh, lastGoodFs,
                 prevGoodFs>>

\* lines 222-239: Update resets the counters and removes the old folders
SyncUpdateBegins ==
  /\ syncPc = "idle"
  /\ syncCalls < MaxSyncCalls
  /\ syncCalls' = syncCalls + 1
  /\ totalFiles' = 1
  /\ totalBytes' = 0
  /\ downloadedFiles' = 0
  /\ downloadedBytes' = 0
  /\ fs' = CleanOldFolders(fs, OldClientFolders)
  /\ cacheFresh' = FALSE
  /\ syncPc' = "url"
  /\ UNCHANGED <<server, tempZip, publications, lastCheck, goodRuns, lastGoodFs, prevGoodFs>>

\* lines 241-257: client_download_url.txt is fetched
SyncUpdateFetchesURL ==
  /\ syncPc = "url"
  /\ \/ SyncUpdateFails
     \/ /\ syncPc' = "zip"
        /\ UNCHANGED <<server, syncCalls, publications, lastCheck, cacheFresh, goodRuns,
                       lastGoodFs, prevGoodFs>>
  /\ UNCHANGED <<fs, tempZip, progressVars>>

\* lines 420-456: downloadZip makes the target folder, creates (truncates)
\* the temp file, requests the archive, sets totalBytes and copies the body
SyncDownloadsZip ==
  /\ syncPc = "zip"
  /\ LET m == MkdirAll(fs, ClientDir) IN
       /\ fs' = m.fs
       /\ IF m.err # "nil"
          THEN /\ SyncUpdateFails
               /\ UNCHANGED <<tempZip, progressVars>>
          ELSE \/ /\ SyncUpdateFails         \* os.Create of the temp file fails
                  /\ UNCHANGED <<tempZip, progressVars>>
               \/ /\ SyncUpdateFails         \* http.Get fails, or the status is not 200
                  /\ tempZip' = BrokenZip
                  /\ UNCHANGED progressVars
               \/ /\ SyncUpdateFails         \* io.Copy fails after the first bytes
                  /\ tempZip' = BrokenZip
                  /\ totalBytes' = ContentLength(server.archive)
                  /\ downloadedBytes' = downloadedBytes + 1
                  /\ UNCHANGED <<totalFiles, downloadedFiles>>
               \/ /\ tempZip' = server.archive
                  /\ totalBytes' = ContentLength(server.archive)
                  /\ downloadedBytes' = downloadedBytes + ContentLength(server.archive)
                  /\ syncPc' = "unzip"
                  /\ UNCHANGED <<totalFiles, downloadedFiles, server, syncCalls, publications,
                                 lastCheck, cacheFresh, goodRuns, lastGoodFs, prevGoodFs>>

\* lines 458-466: the temp file is extracted into the client folder and the
\* archive is counted as one file
SyncUnzips ==
  /\ syncPc = "unzip"
  /\ \E r \in {unzipToFolder(fs, tempZip, ClientDir)}
              \cup {unzipStopsAt(fs, tempZip, ClientDir, k) : k \in 1..Len(tempZip.names)} :
       /\ fs' = r.fs
       /\ IF r.err # "nil"
          THEN /\ SyncUpdateFails
               /\ UNCHANGED progressVars
          ELSE /\ downloadedFiles' = downloadedFiles + 1
               /\ syncPc' = "version"
               /\ UNCHANGED <<totalBytes, totalFiles, downloadedBytes, server, syncCalls,
                              publications, lastCheck, cacheFresh, goodRuns, lastGoodFs,
                              prevGoodFs>>
  /\ UNCHANGED tempZip

\* lines 265-279: client_version.txt is fetched and written to the install
\* root; when the request or the read fails nothing is written and nothing is
\* reported; the result of WriteFile is not looked at
SyncSavesVersion ==
  /\ syncPc = "version"
  /\ \/ /\ fs' = fs
        /\ cacheFresh' = FALSE
        /\ goodRuns' = 0
        /\ UNCHANGED <<lastGoodFs, prevGoodFs>>
     \/ LET w == WriteFile(fs, VersionPath, server.token) IN
          /\ fs' = w.fs
          /\ cacheFresh' = (w.err = "nil")
          /\ goodRuns' = goodRuns + 1
          /\ prevGoodFs' = lastGoodFs
          /\ lastGoodFs' = w.fs
  /\ syncPc' = "idle"
  /\ UNCHANGED <<server, tempZip, syncCalls, publications, lastCheck, progressVars>>

\* The frontend calls NeedsUpdate (lines 308-346).
SyncNeedsUpdate ==
  /\ syncPc = "idle"
  /\ syncCalls < MaxSyncCalls
  /\ syncCalls' = syncCalls + 1
  /\ \E outcome \in {"get error", "read error", "ok"} :
       lastCheck' = [outcome |-> outcome,
                     remoteToken |-> server.token,
                     cached |-> IsFile(At(fs, VersionPath)),
                     cacheToken |-> ReadFile(fs, VersionPath).content,
                     fresh |-> cacheFresh,
                     result |-> NeedsUpdate(fs, server.token, outcome)]
  /\ UNCHANGED <<server, fs, tempZip, syncPc, publications, cacheFresh, goodRuns, lastGoodFs,
                 prevGoodFs, progressVars>>

SyncNext ==
  \/ ServerPublishes /\ UNCHANGED syncOthers
  \/ SyncUpdateBegins /\ UNCHANGED syncOthers
  \/ SyncUpdateFetchesURL /\ UNCHANGED syncOthers
  \/ SyncDownloadsZip /\ UNCHANGED syncOthers
  \/ SyncUnzips /\ UNCHANGED syncOthers
  \/ SyncSavesVersion /\ UNCHANGED syncOthers
  \/ SyncNeedsUpdate /\ UNCHANGED syncOthers

SpecSync == SyncInit /\ [][SyncNext]_vars

-----------------------------------------------------------------------------
(* Claims about NeedsUpdate and Update.                                     *)

\* The last call of NeedsUpdate answered as the tokens say: TRUE when the
\* trimmed cached token differs from the trimmed remote one, FALSE when the
\* cache was written by a successful Update and the remote token is the same
\* since.
AnswersAsTheTokensSay ==
  /\ (lastCheck.cached /\ TrimSpace(lastCheck.cacheToken) # TrimSpace(lastCheck.remoteToken))
       => lastCheck.result
  /\ lastCheck.fresh => ~lastCheck.result

\* C4 (as stated): when the whitespace-trimmed remote version token differs
\* from the whitespace-trimmed cached token NeedsUpdate returns true, and
\* after a successful Update has written the remote token to the cache a
\* subsequent NeedsUpdate returns false as long as the remote token has not
\* changed - whatever happens to NeedsUpdate's own request.
C4_NeedsUpdateFollowsTokens ==
  lastCheck.outcome # "none" => AnswersAsTheTokensSay

\* C4 (amended): when NeedsUpdate's request for client_version.txt and the
\* read of its body succeed, it returns true if the trimmed remote token
\* differs from the trimmed cached token, and false after a successful Update
\* has written the remote token to the cache and the remote token has not
\* changed since.
C4_NeedsUpdateFollowsTokensWhenFetched ==
  lastCheck.outcome = "ok" => AnswersAsTheTokensSay

\* C4 witness: a NeedsUpdate whose request succeeded returned false after an
\* Update had saved a token that ends with a newline.
C4_Witness ==
  /\ lastCheck.outcome = "ok"
  /\ lastCheck.fresh
  /\ ~lastCheck.result
  /\ lastCheck.remoteToken # TrimSpace(lastCheck.remoteToken)
  /\ goodRuns >= 1

\* What a file system holds: its paths with their kinds and contents.
Holds(f) == {<<q, f[q]>> : q \in {x \in DOMAIN f : f[x] # Nothing}}

\* C8: a second successful Update in a row, with nothing published by the
\* server in between, leaves the same files with the same contents and the
\* same cached version token as the first one left.
C8_SecondUpdateChangesNothing ==
  goodRuns >= 2 => Holds(lastGoodFs) = Holds(prevGoodFs)

\* C8 witness: two successful Updates in a row over an install that had an
\* earlier client, each having extracted a file into the client folder and
\* saved the token.
C8_Witness ==
  /\ goodRuns >= 2
  /\ syncPc = "idle"
  /\ IsFile(At(lastGoodFs, VersionPath))
  /\ IsFile(At(lastGoodFs, InitLuaPath))
  /\ At(lastGoodFs, Append(ClientDir, <<"a">>)) = Nothing

-----------------------------------------------------------------------------
(* DownloadPercent, called on counters of any value.                        *)

\* Bound: the largest value of a counter.
MaxCounter == 12

RECURSIVE GCD(_, _)
GCD(a, b) == IF b = 0 THEN a ELSE GCD(b, a % b)

Abs(n) == IF n < 0 THEN -n ELSE n

\* The number n / d (d # 0), in lowest terms with a positive denominator.
Fraction(n, d) ==
  LET g == GCD(Abs(n), Abs(d))
      sign == IF d < 0 THEN -1 ELSE 1
  IN [num |-> sign * (n \div g), den |-> sign * (d \div g)]

\* A DownloadPercent that leaves out the factor 100.
DownloadPercentAsRatio ==
  IF totalBytes = 0 THEN Fraction(0, 1)
  ELSE Fraction(downloadedBytes, totalBytes)

\* DownloadPercent (lines 150-157): 0 when totalBytes is 0, else
\* float64(downloadedBytes) / float64(totalBytes) * 100.  The value is kept
\* as the exact quotient; float64 holds 0, 1 and 100 exactly and the quotient
\* of two equal floats is 1.
DownloadPercent ==
  IF totalBytes = 0 THEN Fraction(0, 1)
  ELSE Fraction(downloadedBytes * 100, totalBytes)

\* The counters hold any values: totalBytes is -1 when a response declared
\* no content length.
PercentInit ==
  /\ totalBytes \in -1..MaxCounter
  /\ downloadedBytes \in 0..MaxCounter
  /\ totalFiles = 1
  /\ downloadedFiles = 0
  /\ percentPc = "idle"
  /\ percentResult = Fraction(0, 1)
  /\ PlanIdle
  /\ UnzipIdle
  /\ ManifestIdle
  /\ CallsIdle
  /\ SyncIdle
  /\ PlayIdle
  /\ UiIdle

\* The frontend calls DownloadPercent.
PercentCall ==
  /\ percentPc = "idle"
  /\ percentResult' = DownloadPercent
  /\ percentPc' = "returned"

PercentNext == PercentCall /\ UNCHANGED percentOthers

SpecPercent == PercentInit /\ [][PercentNext]_vars

\* C11: DownloadPercent returns 0 whenever totalBytes is 0, whatever
\* downloadedBytes is, and 100 whenever downloadedBytes equals totalBytes and
\* totalBytes is greater than 0.
C11_PercentIsZeroOrHundred ==
  percentPc = "returned" =>
    /\ totalBytes = 0 => percentResult = Fraction(0, 1)
    /\ (downloadedBytes = totalBytes /\ totalBytes > 0) => percentResult = Fraction(100, 1)

\* C11 witness: DownloadPercent has returned for equal positive counters.
C11_Witness ==
  /\ percentPc = "returned"
  /\ downloadedBytes = totalBytes
  /\ totalBytes > 1
  /\ percentResult = Fraction(100, 1)

-----------------------------------------------------------------------------
(* A claim about the byte counters of overlapping and single calls.         *)

\* The call has passed line 446, where downloadZip sets totalBytes.
HasSetTotalBytes(c) ==
  \/ calls[c].pc \in {"dz_copy", "dz_unzip", "dz_load", "dz_store", "version"}
  \/ calls[c].pc = "returned" /\ calls[c].err \in {"copy error", "unzip error", "nil"}

\* C16: once a transfer has set totalBytes from the declared content length,
\* 0 <= downloadedBytes <= totalBytes holds in every state during and after
\* the transfer, and DownloadPercent lies between 0 and 100.
C16_DoneBytesWithinTotalBytes ==
  (\E c \in Calls : HasSetTotalBytes(c)) =>
    /\ 0 <= downloadedBytes
    /\ downloadedBytes <= totalBytes
    /\ 0 <= DownloadPercent.num
    /\ DownloadPercent.num <= 100 * DownloadPercent.den

-----------------------------------------------------------------------------
(* Play and PlayDirect on the file system.                                  *)

\* Bound: the number of launch calls.
MaxPlays == 2

\* runtime.GOOS
OperatingSystems == {"windows", "linux", "darwin"}

\* a.clientInfo.Executable: empty while no manifest was loaded
ClientExecutables == {<<>>, <<"otclient_gl.exe">>, <<"client.exe">>}

\* localExecutable (lines 633-642)
localExecutable(os) ==
  IF os = "linux" THEN AppDir \o << <<"bin">>, <<"client-local">> >>
  ELSE IF os = "windows" THEN AppDir \o << <<"bin">>, <<"client-local.exe">> >>
  ELSE AppDir \o << <<"Contents">>, <<"MacOS">>, <<"client-local">> >>

\* executable (lines 644-647): filepath.Join drops an empty last element
clientExecutable(name) ==
  IF name = <<>> THEN ClientDir ELSE Append(ClientDir, name)

\* line 651
DirectExecutable == Append(ClientDir, <<"otclient_gl.exe">>)

\* An install root with the client and the local client in place, and one
\* where regular files stand where the client and bin folders should be.
FullInstall ==
  [q \in Prefixes(DirectExecutable) \cup Prefixes(localExecutable("linux")) |->
     IF q \in {DirectExecutable, localExecutable("linux")}
     THEN RegularFile(OldContent) ELSE Directory]
BlockedInstall ==
  [q \in Prefixes(ClientDir) \cup {Append(AppDir, <<"bin">>)} |->
     IF q \in Prefixes(AppDir) THEN Directory ELSE RegularFile(OldContent)]

PlayInit ==
  /\ fs \in {NewInstall, FullInstall, BlockedInstall}
  /\ playKind = "none"
  /\ playPc = "idle"
  /\ executable = <<>>
  /\ plays = 0
  /\ startAttempts = 0
  /\ processes = 0
  /\ reported = "nothing"
  /\ zipFile = <<>> /\ fs0 = <<>> /\ rootFolder = <<>> /\ unzipPc = "idle"
  /\ unzipIdx = 0 /\ unzipErr = "unset" /\ targets = <<>>
  /\ PlanIdle
  /\ ManifestIdle
  /\ ProgressIdle
  /\ CallsIdle
  /\ SyncIdle
  /\ PercentIdle
  /\ UiIdle

\* The frontend calls Play(false), Play(true) or PlayDirect; the path of the
\* executable is resolved (lines 651, 674-677).
PlayBegins ==
  /\ playPc \in {"idle", "returned"}
  /\ plays < MaxPlays
  /\ plays' = plays + 1
  /\ \/ \E name \in ClientExecutables :
          playKind' = "Play" /\ executable' = clientExecutable(name)
     \/ \E os \in OperatingSystems :
          playKind' = "PlayLocal" /\ executable' = localExecutable(os)
     \/ playKind' = "PlayDirect" /\ executable' = DirectExecutable
  /\ playPc' = "check"
  /\ startAttempts' = 0
  /\ reported' = "nothing"
  /\ UNCHANGED processes

\* lines 658-661 and 683-687: if !fileExists(executable) the call reports
\* that the executable was not found and returns
PlayChecks ==
  /\ playPc = "check"
  /\ IF ~fileExists(StatAt(fs, executable))
     THEN playPc' = "returned" /\ reported' = "not found"
     ELSE playPc' = "start" /\ reported' = reported
  /\ UNCHANGED <<playKind, executable, plays, startAttempts, processes>>

\* lines 663-670 and 694-717: cmd.Start is called once; it starts a process
\* only for a file that is there, and may fail for it too; the call reports
\* the outcome and returns
PlayStarts ==
  /\ playPc = "start"
  /\ startAttempts' = startAttempts + 1
  /\ \/ /\ IsFile(At(fs, executable))
        /\ processes' = processes + 1
        /\ reported' = "started"
     \/ /\ processes' = processes
        /\ reported' = "start failed"
  /\ playPc' = "returned"
  /\ UNCHANGED <<playKind, executable, plays>>

PlayNext ==
  \/ PlayBegins /\ UNCHANGED playOthers
  \/ PlayChecks /\ UNCHANGED playOthers
  \/ PlayStarts /\ UNCHANGED playOthers

SpecPlay == PlayInit /\ [][PlayNext]_vars

-----------------------------------------------------------------------------
(* The frontend's update() and its poll (src/unnamed/part_000), over the    *)
(* Update calls modelled above.  The binding calls of the frontend are      *)
(* asynchronous: Update runs in the backend while the poll callback reads   *)
(* the counters one await after the other.                                  *)

\* Bound: how many times update() runs (at most MaxCalls).
MaxUpdates == 1

\* lines 36-41 of part_000
UiZero == [totalFiles |-> 0, totalBytes |-> 0, downloadedBytes |-> 0, downloadedFiles |-> 0,
           activeDownload |-> "", progress |-> Fraction(0, 1)]

\* The awaits of the poll callback (lines 93-98 of part_000): position -> the
\* frontend variable that is assigned and the position after it.
PollReads ==
  [ p93 |-> [field |-> "totalFiles", next |-> "p94"],
    p94 |-> [field |-> "totalBytes", next |-> "p95"],
    p95 |-> [field |-> "downloadedBytes", next |-> "p96"],
    p96 |-> [field |-> "downloadedFiles", next |-> "p97"],
    p97 |-> [field |-> "activeDownload", next |-> "p98"],
    p98 |-> [field |-> "progress", next |-> "p100"] ]

\* What the binding behind a frontend variable returns (lines 150-173 and
\* 213-220 of app.go).
Binding(field) ==
  CASE field = "totalFiles" -> {totalFiles}
    [] field = "totalBytes" -> {totalBytes}
    [] field = "downloadedBytes" -> {downloadedBytes}
    [] field = "downloadedFiles" -> {downloadedFiles}
    [] field = "activeDownload" -> ActiveDownload
    [] OTHER -> {DownloadPercent}

\* The state when the frontend is mounted: Revision() and Version() have run
\* refreshManifests, and every manifest download that completed counted one
\* file (line 628 of app.go); NeedsUpdate has answered.
PollInit ==
  /\ calls = [c \in Calls |-> IdleCall]
  /\ activeDownloads = {}
  /\ totalBytes = 0
  /\ totalFiles = 0
  /\ downloadedBytes = 0
  /\ downloadedFiles \in 0..(2 * Cardinality(Manifests))
  /\ updating = FALSE
  /\ needsUpdate \in BOOLEAN
  /\ ui = UiZero
  /\ pollPc = "idle"
  /\ intervalSet = FALSE
  /\ updates = 0
  /\ PlanIdle
  /\ UnzipIdle
  /\ ManifestIdle
  /\ SyncIdle
  /\ PercentIdle
  /\ PlayIdle

\* checkForUpdates (lines 76-82 of part_000); the button is disabled while
\* updating
CheckForUpdates ==
  /\ ~updating
  /\ needsUpdate' \in BOOLEAN
  /\ UNCHANGED <<updating, ui, pollPc, intervalSet, updates, progressVars, callVars>>

\* update() (lines 84-92 of part_000), from the button shown while
\* needsUpdate && !updating or from the timer set on mount: the frontend's
\* counters are zeroed, Update is called without waiting for it, and the
\* interval is set
UiUpdate ==
  /\ needsUpdate
  /\ ~updating
  /\ updates < MaxUpdates
  /\ updates < MaxCalls
  /\ calls[updates + 1].pc = "idle"
  /\ updates' = updates + 1
  /\ ui' = [ui EXCEPT !.totalFiles = 0, !.totalBytes = 0, !.downloadedBytes = 0,
                      !.downloadedFiles = 0]
  /\ calls' = [calls EXCEPT ![updates + 1].kind = "Update", ![updates + 1].pc = "u225"]
  /\ updating' = TRUE
  /\ intervalSet' = TRUE
  /\ UNCHANGED <<needsUpdate, pollPc, progressVars, activeDownloads>>

\* The interval fires and the callback starts.
PollTicks ==
  /\ intervalSet
  /\ pollPc = "idle"
  /\ pollPc' = "p93"
  /\ UNCHANGED <<updating, needsUpdate, ui, intervalSet, updates, progressVars, callVars>>

\* One await of the callback returns.
PollAwaits ==
  /\ pollPc \in DOMAIN PollReads
  /\ LET rd == PollReads[pollPc] IN
       /\ \E v \in Binding(rd.field) : ui' = [ui EXCEPT ![rd.field] = v]
       /\ pollPc' = rd.next
  /\ UNCHANGED <<updating, needsUpdate, intervalSet, updates, progressVars, callVars>>

\* lines 100-104 of part_000
PollDecides ==
  /\ pollPc = "p100"
  /\ IF ui.downloadedFiles = ui.totalFiles
     THEN updating' = FALSE /\ needsUpdate' = FALSE /\ intervalSet' = FALSE
     ELSE UNCHANGED <<updating, needsUpdate, intervalSet>>
  /\ pollPc' = "idle"
  /\ UNCHANGED <<ui, updates, progressVars, callVars>>

\* A step of the frontend's poll.
PollStep == PollTicks \/ PollAwaits \/ PollDecides

\* A step of a running Update call.
BackendStep ==
  \E c \in Calls :
    \/ CallResets(c) \/ UpdateFetchesURL(c) \/ DzRequests(c) \/ DzSetsTotalBytes(c)
    \/ DzWrites(c) \/ DzCopyEnds(c) \/ DzUnzips(c) \/ DzLoadsDownloadedFiles(c)
    \/ DzStoresDownloadedFiles(c) \/ UpdateSavesVersion(c)

PollNext ==
  \/ CheckForUpdates /\ UNCHANGED pollOthers
  \/ UiUpdate /\ UNCHANGED pollOthers
  \/ PollTicks /\ UNCHANGED pollOthers
  \/ PollAwaits /\ UNCHANGED pollOthers
  \/ PollDecides /\ UNCHANGED pollOthers
  \/ \E c \in Calls : CallResets(c) /\ UNCHANGED <<pollOthers, uiVars>>
  \/ \E c \in Calls : UpdateFetchesURL(c) /\ UNCHANGED <<pollOthers, uiVars>>
  \/ \E c \in Calls : DzRequests(c) /\ UNCHANGED <<pollOthers, uiVars>>
  \/ \E c \in Calls : DzSetsTotalBytes(c) /\ UNCHANGED <<pollOthers, uiVars>>
  \/ \E c \in Calls : DzWrites(c) /\ UNCHANGED <<pollOthers, uiVars>>
  \/ \E c \in Calls : DzCopyEnds(c) /\ UNCHANGED <<pollOthers, uiVars>>
  \/ \E c \in Calls : DzUnzips(c) /\ UNCHANGED <<pollOthers, uiVars>>
  \/ \E c \in Calls : DzLoadsDownloadedFiles(c) /\ UNCHANGED <<pollOthers, uiVars>>
  \/ \E c \in Calls : DzStoresDownloadedFiles(c) /\ UNCHANGED <<pollOthers, uiVars>>
  \/ \E c \in Calls : UpdateSavesVersion(c) /\ UNCHANGED <<pollOthers, uiVars>>

SpecPoll == PollInit /\ [][PollNext]_vars

\* The goroutine of a call keeps running and the interval keeps firing; the
\* user need not press any button.
SpecPollFair ==
  /\ PollInit
  /\ [][PollNext]_vars
  /\ WF_vars(BackendStep /\ UNCHANGED <<pollOthers, uiVars>>)
  /\ WF_vars(PollStep /\ UNCHANGED pollOthers)

-----------------------------------------------------------------------------
(* Claims about the frontend's poll.                                        *)

\* The Update call has downloaded and extracted the archive: it is past
\* line 464 of app.go.
Succeeded(c) ==
  \/ calls[c].pc = "version"
  \/ calls[c].pc = "returned" /\ calls[c].err = "nil"

\* C13: the poll started by update() marks the update as finished
\* (updating = false, needsUpdate = false) only when the archive transfer of
\* the Update call started by that update() has been downloaded and
\* extracted successfully.
C13_CompletionOnlyAfterSuccess ==
  [][(updating /\ ~updating') => Succeeded(updates)]_vars

\* C14: after update() has called Update the poll eventually stops, whatever
\* the outcome of Update: updating becomes false and the interval is cleared.
C14_PollEventuallyStops ==
  updating ~> (~updating /\ ~intervalSet)

-----------------------------------------------------------------------------
(* A claim about Update and the cached version token.                       *)

\* C15: Update writes the cached version token only after the archive was
\* downloaded and extracted: an Update that fails at an earlier step returns
\* with client_version.txt as it was, so that NeedsUpdate answers as before.
C15_FailedUpdateKeepsCachedToken ==
  [][(syncPc \in {"url", "zip", "unzip"} /\ syncPc' = "idle")
       => At(fs', VersionPath) = At(fs, VersionPath)]_vars

=============================================================================
